---- MODULE Spec2Model ----
(***************************************************************************)
(* EPC Project Intelligence Portal (src/app.py): the planned spend engine, *)
(* the scoring engine and the risk classification.                         *)
(*                                                                         *)
(* Money and ratios are Python floats in the source.  They are modelled as *)
(* exact rationals [n, d] in lowest terms (d > 0), and round(x, k) as      *)
(* rounding to the nearest multiple of 10^-k with ties going to the even   *)
(* choice, which is what Python documents for round().  Dates are day      *)
(* numbers (date.toordinal()).                                             *)
(***************************************************************************)
EXTENDS Integers, Sequences, FiniteSets, TLC

VARIABLES
    ms,        \* the milestone record handed to the engine
    today,     \* date.today(), as a day number
    schedule,  \* the rows last returned by compute_planned_schedule(ms)
    calc,      \* the locals of the last score_milestone(ms) call, unrounded
    metrics,   \* the bundle last returned by score_milestone(ms)
    riskArg,   \* the score last handed to risk_label / risk_color
    label,     \* what risk_label returned for riskArg
    color,     \* what risk_color returned for riskArg
    sugg,      \* the outcome of the last generate_suggestions(ms, m) call
    rendered,  \* which output the last script run produced
    milestones,\* get_data()["milestones"], the stored list
    now,       \* int(datetime.now().timestamp()), the clock in seconds
    saved      \* what the last persist(d) of a form wrote

vars == <<ms, today, schedule, calc, metrics, riskArg, label, color, sugg, rendered,
          milestones, now, saved>>

---------------------------------------------------------------------------
(* Exact rational arithmetic standing for the float arithmetic.            *)

Abs(x) == IF x < 0 THEN -x ELSE x

Min(a, b) == IF a <= b THEN a ELSE b

Max(a, b) == IF a >= b THEN a ELSE b

RECURSIVE GCD(_, _)
GCD(a, b) == IF b = 0 THEN a ELSE GCD(b, a % b)

Rat(n, d) ==
    LET g == GCD(Abs(n), d) IN [n |-> n \div g, d |-> d \div g]

FromInt(i) == [n |-> i, d |-> 1]

Zero == FromInt(0)

One == FromInt(1)

\* An amount of money given in cents, e.g. Dollars(12050) is 120.50.
Dollars(cents) == Rat(cents, 100)

RAdd(a, b) ==
    LET g == GCD(a.d, b.d)
        l == (a.d \div g) * b.d
    IN  Rat(a.n * (l \div a.d) + b.n * (l \div b.d), l)

RSub(a, b) == RAdd(a, [n |-> -b.n, d |-> b.d])

RMul(a, b) ==
    LET g1 == GCD(Abs(a.n), b.d)
        g2 == GCD(Abs(b.n), a.d)
    IN  [n |-> (a.n \div g1) * (b.n \div g2), d |-> (a.d \div g2) * (b.d \div g1)]

\* b > 0 wherever the source divides.
RDiv(a, b) == RMul(a, [n |-> b.d, d |-> b.n])

RLe(a, b) ==
    LET g == GCD(a.d, b.d) IN a.n * (b.d \div g) <= b.n * (a.d \div g)

RLt(a, b) ==
    LET g == GCD(a.d, b.d) IN a.n * (b.d \div g) < b.n * (a.d \div g)

RMin(a, b) == IF RLe(a, b) THEN a ELSE b

RMax(a, b) == IF RLe(b, a) THEN a ELSE b

\* round(x): nearest integer, ties to the even one.
RoundInt(r) ==
    LET q  == r.n \div r.d
        r2 == 2 * (r.n % r.d)
    IN  IF r2 < r.d THEN q
        ELSE IF r2 > r.d THEN q + 1
        ELSE IF q % 2 = 0 THEN q ELSE q + 1

Pow10(k) == IF k = 0 THEN 1 ELSE IF k = 1 THEN 10 ELSE IF k = 2 THEN 100
            ELSE IF k = 3 THEN 1000 ELSE 10000

\* round(x, k)
Round(r, k) == Rat(RoundInt(RMul(r, FromInt(Pow10(k)))), Pow10(k))

\* s[lo] + ... + s[hi], halving the range to keep the evaluation shallow
RECURSIVE RSumRange(_, _, _)
RSumRange(s, lo, hi) ==
    IF lo > hi THEN Zero
    ELSE IF lo = hi THEN s[lo]
    ELSE LET mid == (lo + hi) \div 2
         IN  RAdd(RSumRange(s, lo, mid), RSumRange(s, mid + 1, hi))

\* sum(s)
RSum(s) == RSumRange(s, 1, Len(s))

---------------------------------------------------------------------------
(* PLANNED SPEND ENGINE                                                    *)

\* mutant: a resource is still active on day index days
RECURSIVE active_cost_inclusive(_, _)
active_cost_inclusive(res, i) ==
    IF res = <<>> THEN Zero
    ELSE LET x == Head(res)
         IN  IF i <= x.days
             THEN RAdd(RMul(FromInt(x.count), x.daily_rate),
                       active_cost_inclusive(Tail(res), i))
             ELSE active_cost_inclusive(Tail(res), i)

\* mutant: a resource is active on every day of the milestone
RECURSIVE active_cost_always(_, _)
active_cost_always(res, i) ==
    IF res = <<>> THEN Zero
    ELSE RAdd(RMul(FromInt(Head(res).count), Head(res).daily_rate),
              active_cost_always(Tail(res), i))

\* sum(x["count"] * x["daily_rate"] for x in res if i < x["days"])
RECURSIVE active_cost(_, _)
active_cost(res, i) ==
    IF res = <<>> THEN Zero
    ELSE LET x == Head(res)
         IN  IF i < x.days
             THEN RAdd(RMul(FromInt(x.count), x.daily_rate), active_cost(Tail(res), i))
             ELSE active_cost(Tail(res), i)

\* sum(m["quantity"] * m["unit_cost"] for m in materials)
RECURSIVE total_mat_cost(_)
total_mat_cost(materials) ==
    IF materials = <<>> THEN Zero
    ELSE RAdd(RMul(Head(materials).quantity, Head(materials).unit_cost),
              total_mat_cost(Tail(materials)))

daily_mat(m) == RDiv(total_mat_cost(m.materials), FromInt(Max(m.deadline_days, 1)))

\* the cost preview of the forms:
\* sum(x["count"] * x["daily_rate"] * x["days"] for x in res)
RECURSIVE planned_cost(_)
planned_cost(res) ==
    IF res = <<>> THEN Zero
    ELSE RAdd(RMul(RMul(FromInt(Head(res).count), Head(res).daily_rate),
                   FromInt(Head(res).days)),
              planned_cost(Tail(res)))

\* planned_total = planned_labour + planned_material + planned_machine
planned_total(m) ==
    RAdd(RAdd(planned_cost(m.labourers), total_mat_cost(m.materials)),
         planned_cost(m.machines))

\* the "total" entry of a row
row_total(wages, dmat, mach) == Round(RAdd(RAdd(wages, dmat), mach), 2)

\* mutant: the daily share is cut to whole cents instead of rounded
row_materials_truncated(dmat) ==
    LET c == RMul(dmat, FromInt(100)) IN Rat(c.n \div c.d, 100)

\* the "materials" entry of a row
row_materials(dmat) == Round(dmat, 2)

schedule_row(m, i) ==
    LET wages == active_cost(m.labourers, i)
        mach  == active_cost(m.machines, i)
    IN  [date      |-> m.start_date + i,
         wages     |-> Round(wages, 2),
         materials |-> row_materials(daily_mat(m)),
         machinery |-> Round(mach, 2),
         total     |-> row_total(wages, daily_mat(m), mach),
         day_index |-> i]

\* days = [start + timedelta(days=i) for i in range(deadline_days)], one row each
compute_planned_schedule(m) ==
    [k \in 1..m.deadline_days |-> schedule_row(m, k - 1)]

\* schedule[schedule["date"] <= today]
get_actuals_up_to_today(m, t) ==
    SelectSeq(compute_planned_schedule(m), LAMBDA r : r.date <= t)

\* mutant: today itself is not counted as elapsed
days_elapsed_exclusive(m, t) ==
    LET elapsed == t - m.start_date
    IN  Max(0, Min(elapsed, m.deadline_days))

days_elapsed(m, t) ==
    LET elapsed == (t - m.start_date) + 1
    IN  Max(0, Min(elapsed, m.deadline_days))

\* mutant: the end date is taken as the last day
days_remaining_exclusive(m, t) ==
    LET end == m.start_date + m.deadline_days - 1
    IN  Max(0, end - t)

days_remaining(m, t) ==
    LET end == m.start_date + m.deadline_days
    IN  Max(0, end - t)

---------------------------------------------------------------------------
(* SCORING ENGINE                                                          *)

\* mutant: the budget is used as a divisor as it is
budget_floor_missing(total_budget) == total_budget

\* max(total_budget, 1), the divisor that stands for the budget
budget_floor(total_budget) == RMax(total_budget, One)

\* x / y raises ZeroDivisionError when y is 0
DivError(y) == IF y = Zero THEN "ZeroDivisionError" ELSE "none"

\* the first exception raised by a run of statements, "none" if none is
FirstError(errors) ==
    LET raised == SelectSeq(errors, LAMBDA e : e # "none")
    IN  IF raised = <<>> THEN "none" ELSE Head(raised)

\* schedule[schedule["date"] <= today]: pd.DataFrame(rows) of an empty list of
\* rows is a frame without columns, and schedule["date"] raises KeyError
get_actuals_error(m) ==
    IF DOMAIN compute_planned_schedule(m) = {} THEN "KeyError" ELSE "none"

\* 0.35 if remaining <= 7 else 0.15 if remaining <= 14 else 0.0
urgency_term(remaining) ==
    IF remaining <= 7 THEN Rat(35, 100)
    ELSE IF remaining <= 14 THEN Rat(15, 100) ELSE Zero

\* mutant: the not-started branch is missing
PoD_layer_unbranched(elapsed, remaining, projected_total, total_budget, deadline_days) ==
    LET budget_pressure == RMin(RDiv(projected_total, RMax(total_budget, One)), FromInt(2))
        pct_time        == RMin(Rat(Max(elapsed, 0), Max(deadline_days, 1)), One)
    IN  RMin(Rat(95, 100),
             RAdd(RAdd(RMul(budget_pressure, Rat(35, 100)), RMul(pct_time, Rat(20, 100))),
                  urgency_term(remaining)))

\* mutant: the ceiling of 0.95 is missing
PoD_layer_uncapped(elapsed, remaining, projected_total, total_budget, deadline_days) ==
    IF elapsed > 0
    THEN LET budget_pressure == RMin(RDiv(projected_total, RMax(total_budget, One)), FromInt(2))
             pct_time        == RMin(Rat(elapsed, Max(deadline_days, 1)), One)
         IN  RAdd(RAdd(RMul(budget_pressure, Rat(35, 100)), RMul(pct_time, Rat(20, 100))),
                  urgency_term(remaining))
    ELSE urgency_term(remaining)

\* mutant: the urgency term reads the duration, not the days remaining
PoD_layer_by_duration(elapsed, remaining, projected_total, total_budget, deadline_days) ==
    IF elapsed > 0
    THEN LET budget_pressure == RMin(RDiv(projected_total, budget_floor(total_budget)), FromInt(2))
             pct_time        == RMin(Rat(elapsed, Max(deadline_days, 1)), One)
         IN  RMin(Rat(95, 100),
                  RAdd(RAdd(RMul(budget_pressure, Rat(35, 100)), RMul(pct_time, Rat(20, 100))),
                       urgency_term(deadline_days)))
    ELSE urgency_term(deadline_days)

\* Layer 1: Probability of Delay
PoD_layer(elapsed, remaining, projected_total, total_budget, deadline_days) ==
    IF elapsed > 0
    THEN LET budget_pressure == RMin(RDiv(projected_total, budget_floor(total_budget)), FromInt(2))
             pct_time        == RMin(Rat(elapsed, Max(deadline_days, 1)), One)
         IN  RMin(Rat(95, 100),
                  RAdd(RAdd(RMul(budget_pressure, Rat(35, 100)), RMul(pct_time, Rat(20, 100))),
                       urgency_term(remaining)))
    ELSE urgency_term(remaining)

\* pct_time as score_milestone leaves it after Layer 1
pct_time_of(elapsed, deadline_days) ==
    IF elapsed > 0 THEN RMin(Rat(elapsed, Max(deadline_days, 1)), One) ELSE Zero

\* mutant: the not-started branch is missing
CoD_norm_layer_unbranched(elapsed, CoD_per_day, total_budget, deadline_days) ==
    RMin(RDiv(RMul(CoD_per_day, FromInt(deadline_days)), budget_floor(total_budget)), One)

\* Layer 2: Cost of Delay, normalised
CoD_norm_layer(elapsed, CoD_per_day, total_budget, deadline_days) ==
    IF elapsed > 0
    THEN RMin(RDiv(RMul(CoD_per_day, FromInt(deadline_days)), budget_floor(total_budget)), One)
    ELSE Zero

\* mutant: the thresholds are tested in the wrong order
CFTS_layer_misordered(remaining) ==
    IF remaining <= 7 THEN Rat(85, 100)
    ELSE IF remaining <= 3 THEN Rat(100, 100)
    ELSE IF remaining <= 14 THEN Rat(65, 100)
    ELSE IF remaining <= 30 THEN Rat(40, 100)
    ELSE Rat(20, 100)

\* Layer 3: Cash Flow Timing Sensitivity
CFTS_layer(remaining) ==
    IF remaining <= 3 THEN Rat(100, 100)
    ELSE IF remaining <= 7 THEN Rat(85, 100)
    ELSE IF remaining <= 14 THEN Rat(65, 100)
    ELSE IF remaining <= 30 THEN Rat(40, 100)
    ELSE Rat(20, 100)

\* mutant: the CFTS term is subtracted
raw_score_of_sign(PoD, CoD_norm, CFTS) ==
    RMul(RSub(RAdd(RMul(PoD, Rat(40, 100)), RMul(CoD_norm, Rat(35, 100))),
              RMul(CFTS, Rat(25, 100))),
         FromInt(100))

\* mutant: the weights of PoD and CoD_norm are exchanged
raw_score_of_swapped(PoD, CoD_norm, CFTS) ==
    RMul(RAdd(RAdd(RMul(PoD, Rat(35, 100)), RMul(CoD_norm, Rat(40, 100))),
              RMul(CFTS, Rat(25, 100))),
         FromInt(100))

raw_score_of(PoD, CoD_norm, CFTS) ==
    RMul(RAdd(RAdd(RMul(PoD, Rat(40, 100)), RMul(CoD_norm, Rat(35, 100))),
              RMul(CFTS, Rat(25, 100))),
         FromInt(100))

\* int(min(100, round(raw_score)))
score_of(raw_score) == Min(100, RoundInt(raw_score))

\* mutant: the ratio is taken as soon as any time has passed
burn_efficiency_of_unguarded(pct_spent, pct_time) ==
    IF RLt(Zero, pct_time) THEN RDiv(pct_spent, pct_time) ELSE One

\* (pct_spent / pct_time) if pct_time > 0.05 else 1.0
burn_efficiency_of(pct_spent, pct_time) ==
    IF RLt(Rat(5, 100), pct_time) THEN RDiv(pct_spent, pct_time) ELSE One

\* mutant: the remaining budget is not floored at 0
remaining_budget_of_unfloored(total_budget, total_spent) == RSub(total_budget, total_spent)

\* max(total_budget - total_spent, 0)
remaining_budget_of(total_budget, total_spent) ==
    RMax(RSub(total_budget, total_spent), Zero)

\* (remaining_budget / avg_daily) if avg_daily > 0 else remaining
days_of_cash_left_of(remaining_budget, avg_daily, remaining) ==
    IF RLt(Zero, avg_daily) THEN RDiv(remaining_budget, avg_daily) ELSE FromInt(remaining)

\* The exception the divisions of score_milestone(ms) raise, "none" if none
\* does: the divisions that are not guarded, in the order they run.
division_error(deadline_days, total_budget, elapsed, observed) ==
    FirstError(<<
        IF observed THEN "none" ELSE DivError(FromInt(Max(deadline_days, 1))),
        IF elapsed > 0 THEN DivError(budget_floor(total_budget)) ELSE "none",
        IF elapsed > 0 THEN DivError(FromInt(Max(deadline_days, 1))) ELSE "none",
        IF elapsed > 0 THEN DivError(budget_floor(total_budget)) ELSE "none",
        DivError(budget_floor(total_budget)) >>)

\* what is left of a call that raised
Raised(error) == [error |-> error]

\* The locals of score_milestone(ms).  The source reads date.today() once in
\* days_elapsed (tE), once in days_remaining (tR) and once in
\* get_actuals_up_to_today (tA).
score_locals(m, tE, tR, tA) ==
    IF get_actuals_error(m) # "none" THEN Raised(get_actuals_error(m)) ELSE
    LET deadline_days == m.deadline_days
        total_budget  == m.total_cost
        elapsed       == days_elapsed(m, tE)
        remaining     == days_remaining(m, tR)
        actuals       == get_actuals_up_to_today(m, tA)
        observed      == actuals # <<>> /\ elapsed > 0
        total_spent   == IF observed THEN RSum([k \in 1..Len(actuals) |-> actuals[k].total]) ELSE Zero
        wages_spent   == IF observed THEN RSum([k \in 1..Len(actuals) |-> actuals[k].wages]) ELSE Zero
        mat_spent     == IF observed THEN RSum([k \in 1..Len(actuals) |-> actuals[k].materials]) ELSE Zero
        mach_spent    == IF observed THEN RSum([k \in 1..Len(actuals) |-> actuals[k].machinery]) ELSE Zero
        avg_daily     == IF observed
                         THEN RDiv(total_spent, FromInt(Len(actuals)))
                         ELSE RDiv(total_budget, FromInt(Max(deadline_days, 1)))
        projected_total == IF observed THEN RMul(avg_daily, FromInt(deadline_days))
                           ELSE total_budget
        pct_time      == pct_time_of(elapsed, deadline_days)
        PoD           == PoD_layer(elapsed, remaining, projected_total, total_budget, deadline_days)
        CoD_per_day   == avg_daily
        CoD_norm      == CoD_norm_layer(elapsed, CoD_per_day, total_budget, deadline_days)
        CFTS          == CFTS_layer(remaining)
        raw_score     == raw_score_of(PoD, CoD_norm, CFTS)
        pct_spent     == RDiv(total_spent, budget_floor(total_budget))
        burn_efficiency == burn_efficiency_of(pct_spent, pct_time)
        remaining_budget == remaining_budget_of(total_budget, total_spent)
        days_of_cash_left == days_of_cash_left_of(remaining_budget, avg_daily, remaining)
        error         == division_error(deadline_days, total_budget, elapsed, observed)
    IN  IF error # "none" THEN Raised(error) ELSE
        [error |-> "none", elapsed |-> elapsed, remaining |-> remaining, n_actuals |-> Len(actuals),
         total_spent |-> total_spent, wages_spent |-> wages_spent,
         mat_spent |-> mat_spent, mach_spent |-> mach_spent,
         avg_daily |-> avg_daily, projected_total |-> projected_total,
         pct_time |-> pct_time, PoD |-> PoD, CoD_per_day |-> CoD_per_day,
         CoD_norm |-> CoD_norm, CFTS |-> CFTS, raw_score |-> raw_score,
         score |-> score_of(raw_score), pct_spent |-> pct_spent,
         burn_efficiency |-> burn_efficiency, remaining_budget |-> remaining_budget,
         days_of_cash_left |-> days_of_cash_left]

\* The dict score_milestone returns, built from its locals.
metrics_bundle(c) ==
    [score |-> c.score, PoD |-> Round(c.PoD, 3), CoD_per_day |-> Round(c.CoD_per_day, 2),
     CFTS |-> Round(c.CFTS, 2), CoD_norm |-> Round(c.CoD_norm, 3),
     avg_daily |-> Round(c.avg_daily, 2), total_spent |-> Round(c.total_spent, 2),
     wages_spent |-> Round(c.wages_spent, 2), mat_spent |-> Round(c.mat_spent, 2),
     mach_spent |-> Round(c.mach_spent, 2), projected_total |-> Round(c.projected_total, 2),
     pct_spent |-> Round(c.pct_spent, 4), pct_time |-> Round(c.pct_time, 4),
     burn_efficiency |-> Round(c.burn_efficiency, 3),
     days_elapsed |-> c.elapsed, days_remaining |-> c.remaining,
     days_of_cash_left |-> Round(c.days_of_cash_left, 1),
     remaining_budget |-> Round(c.remaining_budget, 2),
     not_started |-> (c.elapsed = 0)]

score_milestone(m, t) ==
    LET c == score_locals(m, t, t, t)
    IN  IF c.error # "none" THEN c ELSE metrics_bundle(c)

\* the label of the tier; the source puts a coloured dot in front of each
risk_label(score) ==
    IF score >= 70 THEN "CRITICAL"
    ELSE IF score >= 45 THEN "HIGH"
    ELSE IF score >= 25 THEN "MEDIUM"
    ELSE "LOW"

\* mutant: the HIGH colour starts at 40
risk_color_shifted(score) ==
    IF score >= 70 THEN "#FF4B4B"
    ELSE IF score >= 40 THEN "#FFA500"
    ELSE IF score >= 25 THEN "#00C0F0"
    ELSE "#00CC66"

risk_color(score) ==
    IF score >= 70 THEN "#FF4B4B"
    ELSE IF score >= 45 THEN "#FFA500"
    ELSE IF score >= 25 THEN "#00C0F0"
    ELSE "#00CC66"

---------------------------------------------------------------------------
(* SUGGESTIONS: generate_suggestions(ms, metrics).  An advisory is the tag *)
(* and the severity of the tuple the source appends; its text is left out, *)
(* except for the divisions it makes.                                      *)

Advisory(tag, kind) == [tag |-> tag, kind |-> kind]

\* if be > 1.40: OVERSPEND  elif be > 1.20: PACE RISK
pace_advisories(be) ==
    IF RLt(Rat(140, 100), be) THEN <<Advisory("OVERSPEND", "error")>>
    ELSE IF RLt(Rat(120, 100), be) THEN <<Advisory("PACE RISK", "warning")>>
    ELSE <<>>

\* mutant: the thresholds of the dashboard explainer
slow_burn_advisory_later(be, pct_time) ==
    IF RLt(be, Rat(60, 100)) /\ RLt(Rat(20, 100), pct_time)
    THEN <<Advisory("SLOW BURN", "info")>> ELSE <<>>

\* if be < 0.55 and pct_time > 0.25: SLOW BURN
slow_burn_advisory(be, pct_time) ==
    IF RLt(be, Rat(55, 100)) /\ RLt(Rat(25, 100), pct_time)
    THEN <<Advisory("SLOW BURN", "info")>> ELSE <<>>

\* if remaining <= 7 and PoD > 0.35: DEADLINE CRITICAL
deadline_advisory(remaining, PoD) ==
    IF remaining <= 7 /\ RLt(Rat(35, 100), PoD)
    THEN <<Advisory("DEADLINE CRITICAL", "error")>> ELSE <<>>

\* sum(l["count"] * l["daily_rate"] * l["days"] for l in labourers)
RECURSIVE total_labour(_)
total_labour(labourers) ==
    IF labourers = <<>> THEN Zero
    ELSE LET l == Head(labourers)
         IN  RAdd(RMul(RMul(FromInt(l.count), l.daily_rate), FromInt(l.days)),
                  total_labour(Tail(labourers)))

\* if labourers: if total_labour > ms["total_cost"] * 0.60
labour_fires(m) ==
    /\ m.labourers # <<>>
    /\ RLt(RMul(m.total_cost, Rat(60, 100)), total_labour(m.labourers))

\* the text of LABOUR OPTIMISE divides by ms['total_cost']
labour_advisory(m) ==
    IF labour_fires(m)
    THEN [error |-> DivError(m.total_cost), list |-> <<Advisory("LABOUR OPTIMISE", "warning")>>]
    ELSE [error |-> "none", list |-> <<>>]

\* if machines and be > 1.05: MACHINERY SAVINGS
machinery_advisory(machines, be) ==
    IF machines # <<>> /\ RLt(Rat(105, 100), be)
    THEN <<Advisory("MACHINERY SAVINGS", "info")>> ELSE <<>>

\* if metrics["days_of_cash_left"] < 10: CASH ALERT
cash_advisory(days_of_cash_left) ==
    IF RLt(days_of_cash_left, FromInt(10))
    THEN <<Advisory("CASH ALERT", "error")>> ELSE <<>>

\* if metrics["projected_total"] > ms["total_cost"] * 1.10
\* mutant: the overrun rule waits for a projection of 1.5 times the contract
overrun_fires_late(m, projected_total) ==
    RLt(RMul(m.total_cost, Rat(150, 100)), projected_total)

overrun_fires(m, projected_total) ==
    RLt(RMul(m.total_cost, Rat(110, 100)), projected_total)

\* ovr divides by ms["total_cost"] before BUDGET OVERRUN is appended
overrun_advisory(m, projected_total) ==
    IF overrun_fires(m, projected_total)
    THEN [error |-> DivError(m.total_cost), list |-> <<Advisory("BUDGET OVERRUN", "error")>>]
    ELSE [error |-> "none", list |-> <<>>]

\* mutant: ON TRACK is appended whatever else fired
on_track_fallback_always(found) == found \o <<Advisory("ON TRACK", "success")>>

\* if not sugg: ON TRACK
on_track_fallback(found) ==
    IF found = <<>> THEN <<Advisory("ON TRACK", "success")>> ELSE found

\* mutant: DEADLINE CRITICAL is tested before SLOW BURN
generate_suggestions_reordered(m, bundle) ==
    LET be     == bundle.burn_efficiency
        labour == labour_advisory(m)
        overrun == overrun_advisory(m, bundle.projected_total)
        error  == FirstError(<<labour.error, overrun.error>>)
    IN  IF error # "none" THEN [error |-> error, list |-> <<>>]
        ELSE [error |-> "none",
              list  |-> on_track_fallback(
                  pace_advisories(be)
                  \o deadline_advisory(bundle.days_remaining, bundle.PoD)
                  \o slow_burn_advisory(be, bundle.pct_time)
                  \o labour.list
                  \o machinery_advisory(m.machines, be)
                  \o cash_advisory(bundle.days_of_cash_left)
                  \o overrun.list)]

\* The outcome of generate_suggestions(ms, metrics): the exception it raises
\* ("none" if it returns) and the list it returns.
generate_suggestions(m, bundle) ==
    LET be     == bundle.burn_efficiency
        labour == labour_advisory(m)
        overrun == overrun_advisory(m, bundle.projected_total)
        error  == FirstError(<<labour.error, overrun.error>>)
    IN  IF error # "none" THEN [error |-> error, list |-> <<>>]
        ELSE [error |-> "none",
              list  |-> on_track_fallback(
                  pace_advisories(be)
                  \o slow_burn_advisory(be, bundle.pct_time)
                  \o deadline_advisory(bundle.days_remaining, bundle.PoD)
                  \o labour.list
                  \o machinery_advisory(m.machines, be)
                  \o cash_advisory(bundle.days_of_cash_left)
                  \o overrun.list)]

\* nothing generated yet
NoAdvice == [error |-> "none", list |-> <<>>]

---------------------------------------------------------------------------
(* INPUTS: the values the Add / Edit Milestone forms hand to the engine.   *)
(* Counts and days are integers >= 1, rates, quantities, unit costs and    *)
(* the contract value are amounts >= 0, the duration is >= 1.              *)

FirstDay == 0

LastDay == 35

StartDates == {2}

SmallDeadlines == {1, 2, 3, 30}

LargeDeadlines == {1, 2, 3, 30, 32}

Resource(count, rate_cents, days) ==
    [count |-> count, daily_rate |-> Dollars(rate_cents), days |-> days]

Material(quantity, unit_cost_cents) ==
    [quantity |-> FromInt(quantity), unit_cost |-> Dollars(unit_cost_cents)]

Milestone(start, dd, cost, labourers, materials, machines) ==
    [start_date |-> start, deadline_days |-> dd, total_cost |-> cost,
     labourers |-> labourers, materials |-> materials, machines |-> machines]

\* Milestones of a few cents or dollars: contract values below, at and above
\* the floor of 1, daily shares that do not come out in whole cents.
SmallCosts == {Zero, Dollars(50), Dollars(200)}

SmallLabourers == {<<>>, <<Resource(1, 1, 1)>>, <<Resource(1, 50, 2)>>}

SmallMaterials == {<<>>, <<Material(1, 25)>>, <<Material(1, 100)>>}

SmallMachines == {<<>>, <<Resource(1, 100, 2)>>}

\* Milestones of the size the forms suggest.
LargeCosts == {Dollars(2000000), Dollars(5000000)}

LargeLabourers == {<<>>, <<Resource(5, 12000, 30)>>}

LargeMaterials == {<<>>, <<Material(96, 1000)>>}

LargeMachines == {<<>>, <<Resource(1, 50000, 30)>>}

\* Milestones that spend a little more than half of their budget, evenly:
\* 0.50 of materials on a contract of 0.40, and 56.00 on a contract of 100.00.
CornerMilestones ==
    {Milestone(s, 2, Dollars(40), <<>>, <<Material(1, 50)>>, <<>>) : s \in StartDates}
    \cup
    {Milestone(s, 4, Dollars(10000), <<>>, <<Material(1, 5600)>>, <<>>) : s \in StartDates}

\* Milestones of ten and twenty days without resources.
MidDurationMilestones ==
    {Milestone(s, dd, Dollars(5000000), <<>>, <<>>, <<>>) : s \in StartDates, dd \in {10, 20}}

MilestoneInputs ==
    {Milestone(s, dd, c, l, m, x) :
        s \in StartDates, dd \in SmallDeadlines, c \in SmallCosts,
        l \in SmallLabourers, m \in SmallMaterials, x \in SmallMachines}
    \cup
    {Milestone(s, dd, c, l, m, x) :
        s \in StartDates, dd \in LargeDeadlines, c \in LargeCosts,
        l \in LargeLabourers, m \in LargeMaterials, x \in LargeMachines}
    \cup
    CornerMilestones
    \cup
    MidDurationMilestones

\* the values the Add Milestone form starts with
DefaultMilestone ==
    Milestone(FirstDay, 30, Dollars(5000000), <<Resource(5, 12000, 30)>>,
              <<[quantity |-> FromInt(100), unit_cost |-> Dollars(1000)]>>,
              <<Resource(1, 50000, 30)>>)

NoMetrics == [none |-> TRUE]

NothingSaved == [op |-> "none"]

---------------------------------------------------------------------------
(* The scoring specification: a milestone, the clock, and the Milestone    *)
(* Detail page scoring it.                                                 *)

Init ==
    /\ ms \in MilestoneInputs
    /\ today = FirstDay
    /\ schedule = <<>>
    /\ calc = NoMetrics
    /\ metrics = NoMetrics
    /\ riskArg = 0
    /\ label = ""
    /\ color = ""
    /\ sugg = NoAdvice
    /\ rendered = "none"
    /\ milestones = <<>>
    /\ now = 0
    /\ saved = NothingSaved

\* midnight passes; what was rendered belongs to the script run that made it
Tick ==
    /\ today < LastDay
    /\ today' = today + 1
    /\ calc' = NoMetrics
    /\ metrics' = NoMetrics
    /\ riskArg' = 0
    /\ label' = ""
    /\ color' = ""
    /\ sugg' = NoAdvice
    /\ rendered' = "none"
    /\ UNCHANGED <<ms, schedule, milestones, now, saved>>

\* m = score_milestone(ms), then risk_label(m["score"]), risk_color(m["score"])
\* and, in the Suggestions tab, generate_suggestions(ms, m).  An exception of
\* score_milestone ends the script run before anything is shown.  date.today()
\* returns tE inside days_elapsed, tR inside days_remaining and tA inside
\* get_actuals_up_to_today.
DetailPage(tE, tR, tA) ==
    /\ calc' = score_locals(ms, tE, tR, tA)
    /\ IF calc'.error # "none"
       THEN /\ metrics' = NoMetrics
            /\ riskArg' = 0
            /\ label' = ""
            /\ color' = ""
            /\ sugg' = NoAdvice
            /\ rendered' = "error"
       ELSE /\ metrics' = metrics_bundle(calc')
            /\ riskArg' = metrics'.score
            /\ label' = risk_label(riskArg')
            /\ color' = risk_color(riskArg')
            /\ sugg' = generate_suggestions(ms, metrics')
            /\ rendered' = "metrics"

\* a script run of the Milestone Detail page within one day
ViewMilestone ==
    /\ rendered = "none"
    /\ DetailPage(today, today, today)
    /\ UNCHANGED <<ms, today, schedule, milestones, now, saved>>

Next == Tick \/ ViewMilestone

Spec == Init /\ [][Next]_vars

---------------------------------------------------------------------------
(* The schedule specification: compute_planned_schedule applied to every   *)
(* milestone of the input set.                                             *)

ScheduleStartDates == {2, 5}

ScheduleDeadlines == {1, 2, 3, 4, 30}

\* a daily rate of 0.004, less than half a cent
FractionLabourers == {<<[count |-> 1, daily_rate |-> Rat(4, 1000), days |-> 2]>>}

ScheduleInputs ==
    {Milestone(s, dd, Dollars(5000000), l, m, x) :
        s \in ScheduleStartDates, dd \in ScheduleDeadlines,
        l \in SmallLabourers \cup LargeLabourers \cup FractionLabourers
                 \cup {<<Resource(1, 1, 1), Resource(2, 3, 3)>>},
        m \in SmallMaterials \cup {<<Material(1, 10000)>>, <<Material(1, 25), Material(3, 5)>>},
        x \in SmallMachines}

InitSchedule ==
    /\ ms \in ScheduleInputs
    /\ today = FirstDay
    /\ schedule = <<>>
    /\ calc = NoMetrics
    /\ metrics = NoMetrics
    /\ riskArg = 0
    /\ label = ""
    /\ color = ""
    /\ sugg = NoAdvice
    /\ rendered = "none"
    /\ milestones = <<>>
    /\ now = 0
    /\ saved = NothingSaved

\* schedule = compute_planned_schedule(ms)
ViewSchedule ==
    /\ rendered = "none"
    /\ schedule' = compute_planned_schedule(ms)
    /\ rendered' = "schedule"
    /\ UNCHANGED <<ms, today, calc, metrics, riskArg, label, color, sugg, milestones, now, saved>>

NextSchedule == ViewSchedule

SpecSchedule == InitSchedule /\ [][NextSchedule]_vars

---------------------------------------------------------------------------
(* The classification specification: risk_label and risk_color applied to  *)
(* every score of 0..100.                                                  *)

Scores == 0..100

InitRisk ==
    /\ ms = DefaultMilestone
    /\ today = FirstDay
    /\ schedule = <<>>
    /\ calc = NoMetrics
    /\ metrics = NoMetrics
    /\ riskArg = 0
    /\ label = ""
    /\ color = ""
    /\ sugg = NoAdvice
    /\ rendered = "none"
    /\ milestones = <<>>
    /\ now = 0
    /\ saved = NothingSaved

Classify(s) ==
    /\ riskArg' = s
    /\ label' = risk_label(s)
    /\ color' = risk_color(s)
    /\ rendered' = "risk"
    /\ UNCHANGED <<ms, today, schedule, calc, metrics, sugg, milestones, now, saved>>

NextRisk == \E s \in Scores : Classify(s)

SpecRisk == InitRisk /\ [][NextRisk]_vars

---------------------------------------------------------------------------
(* The zero-duration specification: milestones with deadline_days = 0.     *)
(* The forms ask for a duration of 1 or more; load_data takes whatever the *)
(* data file holds.                                                        *)

ZeroDurationInputs ==
    {Milestone(s, 0, c, l, m, x) :
        s \in StartDates, c \in SmallCosts,
        l \in SmallLabourers, m \in SmallMaterials, x \in SmallMachines}

InitZeroDuration ==
    /\ ms \in ZeroDurationInputs
    /\ today = FirstDay
    /\ schedule = <<>>
    /\ calc = NoMetrics
    /\ metrics = NoMetrics
    /\ riskArg = 0
    /\ label = ""
    /\ color = ""
    /\ sugg = NoAdvice
    /\ rendered = "none"
    /\ milestones = <<>>
    /\ now = 0
    /\ saved = NothingSaved

NextZeroDuration == Tick \/ ViewMilestone \/ ViewSchedule

SpecZeroDuration == InitZeroDuration /\ [][NextZeroDuration]_vars

---------------------------------------------------------------------------
(* The midnight specification: the Milestone Detail page as in Spec, and   *)
(* script runs during which the date changes.  score_milestone reads       *)
(* date.today() in days_elapsed (line 118), then in days_remaining (line   *)
(* 126), then in get_actuals_up_to_today (line 111); midnight falls        *)
(* between two of the three reads.                                         *)

ViewMilestoneOverMidnight ==
    /\ rendered = "none"
    /\ today < LastDay
    /\ \E tR \in {today, today + 1} : DetailPage(today, tR, today + 1)
    /\ today' = today + 1
    /\ UNCHANGED <<ms, schedule, milestones, now, saved>>

NextMidnight == Tick \/ ViewMilestone \/ ViewMilestoneOverMidnight

SpecMidnight == Init /\ [][NextMidnight]_vars

---------------------------------------------------------------------------
(* The store specification: the stored list of milestones under the Add    *)
(* Milestone, Edit Milestone and Manage Milestones pages.  The date stays  *)
(* at FirstDay; seconds of the clock pass between, or not between, saves.  *)

MaxMilestones == 2

MaxSeconds == 2

\* start dates a form can be given: yesterday, today, tomorrow
StoreStartDates == {FirstDay - 1, FirstDay, FirstDay + 1}

StoreDurations == {1, 2, 3}

\* f"MS{len(get_data()['milestones'])+1:03d}_{int(datetime.now().timestamp())}":
\* the two numbers the text is formatted from
ms_id(stored, seconds) == <<Len(stored) + 1, seconds>>

Stored(id, start, dd) ==
    [id |-> id, start_date |-> start, deadline_days |-> dd,
     total_cost |-> Dollars(5000000),
     labourers |-> <<>>, materials |-> <<>>, machines |-> <<>>]

\* min_dur = max(m["days_elapsed"] + 1, 1), where m = score_milestone(ms) and
\* m["days_elapsed"] is the elapsed = days_elapsed(ms) of that call
min_dur(m, t) == Max(days_elapsed(m, t) + 1, 1)

\* [updated if m2["id"] == ms["id"] else m2 for m2 in d["milestones"]]
replace_by_id(stored, id, updated) ==
    [k \in 1..Len(stored) |-> IF stored[k].id = id THEN updated ELSE stored[k]]

\* [m2 for m2 in d["milestones"] if m2["id"] != ms["id"]]
remove_by_id(stored, id) == SelectSeq(stored, LAMBDA m2 : m2.id # id)

InitStore ==
    /\ ms = DefaultMilestone
    /\ today = FirstDay
    /\ schedule = <<>>
    /\ calc = NoMetrics
    /\ metrics = NoMetrics
    /\ riskArg = 0
    /\ label = ""
    /\ color = ""
    /\ sugg = NoAdvice
    /\ rendered = "none"
    /\ milestones = <<>>
    /\ now = 0
    /\ saved = NothingSaved

\* a second of the clock passes
SecondPasses ==
    /\ now < MaxSeconds
    /\ now' = now + 1
    /\ UNCHANGED <<ms, today, schedule, calc, metrics, riskArg, label, color,
                   sugg, rendered, milestones, saved>>

\* "Save Milestone" with a title entered
AddMilestone(start, dd) ==
    /\ Len(milestones) < MaxMilestones
    /\ LET milestone == Stored(ms_id(milestones, now), start, dd)
       IN  /\ milestones' = Append(milestones, milestone)
           /\ saved' = [op |-> "add", id |-> milestone.id]
    /\ UNCHANGED <<ms, today, schedule, calc, metrics, riskArg, label, color,
                   sugg, rendered, now>>

\* "Save Changes" on the milestone selected, the duration field holding a
\* number the field accepts
EditMilestone(k, new_start, new_deadline) ==
    /\ k \in 1..Len(milestones)
    /\ new_deadline >= min_dur(milestones[k], today)    \* min_value=min_dur
    /\ LET updated == [milestones[k] EXCEPT !.start_date = new_start,
                                            !.deadline_days = new_deadline]
       IN  /\ milestones' = replace_by_id(milestones, milestones[k].id, updated)
           /\ saved' = [op |-> "edit", id |-> milestones[k].id,
                        updated_id |-> updated.id,
                        days_elapsed |-> days_elapsed(milestones[k], today),
                        deadline_days |-> updated.deadline_days]
    /\ UNCHANGED <<ms, today, schedule, calc, metrics, riskArg, label, color,
                   sugg, rendered, now>>

\* "Delete" on one milestone of the Manage Milestones page, its title typed
DeleteMilestone(k) ==
    /\ k \in 1..Len(milestones)
    /\ milestones' = remove_by_id(milestones, milestones[k].id)
    /\ saved' = [op |-> "delete", id |-> milestones[k].id]
    /\ UNCHANGED <<ms, today, schedule, calc, metrics, riskArg, label, color,
                   sugg, rendered, now>>

\* "Wipe Everything" with DELETE ALL typed
DeleteAll ==
    /\ milestones # <<>>
    /\ milestones' = <<>>
    /\ saved' = [op |-> "wipe"]
    /\ UNCHANGED <<ms, today, schedule, calc, metrics, riskArg, label, color,
                   sugg, rendered, now>>

NextStore ==
    \/ SecondPasses
    \/ \E start \in StoreStartDates, dd \in StoreDurations : AddMilestone(start, dd)
    \/ \E k \in 1..MaxMilestones, new_start \in StoreStartDates,
          new_deadline \in StoreDurations : EditMilestone(k, new_start, new_deadline)
    \/ \E k \in 1..MaxMilestones : DeleteMilestone(k)
    \/ DeleteAll

SpecStore == InitStore /\ [][NextStore]_vars

---------------------------------------------------------------------------
(* CLAIMS                                                                  *)

Scored == rendered = "metrics"

\* the urgency term as the specification words it
ExpectedUrgency(r) ==
    IF r <= 7 THEN Rat(35, 100) ELSE IF r <= 14 THEN Rat(15, 100) ELSE Zero

\* C1: for every milestone and every value of today, the score returned by
\* score_milestone is an integer with 0 <= score <= 100.
C1_ScoreInRange == Scored => metrics.score \in 0..100

C1_Witness == Scored /\ metrics.score >= 70 /\ metrics.days_elapsed > 0

\* C2: a milestone whose days_elapsed is 0 (today before start_date) is scored
\* with PoD exactly the urgency term of its days_remaining, total_spent = 0 and
\* not_started = true.
C2_NotStarted ==
    (Scored /\ metrics.days_elapsed = 0) =>
        /\ today < ms.start_date
        /\ calc.PoD = ExpectedUrgency(metrics.days_remaining)
        /\ metrics.PoD = ExpectedUrgency(metrics.days_remaining)
        /\ calc.total_spent = Zero
        /\ metrics.total_spent = Zero
        /\ metrics.not_started = TRUE

C2_Witness ==
    /\ Scored
    /\ metrics.days_elapsed = 0
    /\ metrics.PoD = Rat(35, 100)
    /\ ms.total_cost = Dollars(5000000)
    /\ ms.labourers # <<>>

\* Scenario 1 of the specification: total_cost = 50000, deadline_days = 30,
\* start_date = today, no labourers, materials or machines.
Scenario1 == ms = Milestone(today, 30, Dollars(5000000), <<>>, <<>>, <<>>)

\* C3 as stated: Scenario 1 is scored with PoD = 0.0 and CFTS = 0.20, so the
\* score is 5.
C3_AsStated ==
    (Scored /\ Scenario1) =>
        /\ metrics.PoD = Zero
        /\ metrics.CFTS = Rat(20, 100)
        /\ metrics.score = 5

\* C3 amended: on its start date the milestone of Scenario 1 has
\* days_elapsed = 1 and days_remaining = 30, so PoD = 0.20 * 1/30 (0.007 in the
\* bundle), CoD_norm = 0 and CFTS = 0.40, and the score is round(10.27) = 10.
C3_Scenario1 ==
    (Scored /\ Scenario1) =>
        /\ metrics.days_elapsed = 1
        /\ metrics.days_remaining = 30
        /\ metrics.not_started = FALSE
        /\ calc.PoD = Rat(1, 150)
        /\ metrics.PoD = Rat(7, 1000)
        /\ calc.CoD_norm = Zero
        /\ metrics.CFTS = Rat(40, 100)
        /\ metrics.score = 10

C3_Witness == Scored /\ Scenario1

\* the CFTS step function as the specification words it
ExpectedCFTS(r) ==
    IF r <= 3 THEN Rat(100, 100)
    ELSE IF r <= 7 THEN Rat(85, 100)
    ELSE IF r <= 14 THEN Rat(65, 100)
    ELSE IF r <= 30 THEN Rat(40, 100)
    ELSE Rat(20, 100)

\* C4: CFTS is the step function of days_remaining (<= 3: 1.00, <= 7: 0.85,
\* <= 14: 0.65, <= 30: 0.40, else 0.20), and a milestone with fewer days
\* remaining never gets a smaller CFTS.
C4_CFTSStep ==
    Scored =>
        /\ calc.CFTS = ExpectedCFTS(metrics.days_remaining)
        /\ metrics.CFTS = ExpectedCFTS(metrics.days_remaining)
        /\ \A r \in 0..metrics.days_remaining : RLe(calc.CFTS, CFTS_layer(r))

C4_Witness ==
    Scored /\ metrics.days_remaining = 3 /\ metrics.days_elapsed > 0 /\ metrics.CFTS = One

\* C5: the score is round(min(100, (PoD*0.40 + CoD_norm*0.35 + CFTS*0.25)*100))
\* of the unrounded layer values, with CoD_norm =
\* min(avg_daily * deadline_days / max(total_cost, 1), 1.0) when days_elapsed > 0
\* and 0.0 otherwise.
C5_Composite ==
    Scored =>
        /\ metrics.score =
              RoundInt(RMin(FromInt(100),
                  RMul(RAdd(RAdd(RMul(calc.PoD, Rat(40, 100)),
                                 RMul(calc.CoD_norm, Rat(35, 100))),
                            RMul(calc.CFTS, Rat(25, 100))),
                       FromInt(100))))
        /\ calc.CoD_norm =
              IF metrics.days_elapsed > 0
              THEN RMin(RDiv(RMul(calc.avg_daily, FromInt(ms.deadline_days)),
                             RMax(ms.total_cost, One)), One)
              ELSE Zero

C5_Witness ==
    /\ Scored
    /\ metrics.days_elapsed > 0
    /\ RLt(Zero, calc.CoD_norm) /\ RLt(calc.CoD_norm, One)
    /\ RLt(Zero, calc.PoD)
    /\ metrics.score > 25

\* C6: with days_elapsed > 0, PoD = min(0.95, budget_pressure*0.35 +
\* pct_time*0.20 + urgency), budget_pressure = min(projected_total /
\* max(total_cost, 1), 2.0), pct_time = min(elapsed / max(deadline_days, 1), 1.0);
\* in every case 0 <= PoD <= 0.95.
C6_PoD ==
    Scored =>
        /\ RLe(Zero, calc.PoD) /\ RLe(calc.PoD, Rat(95, 100))
        /\ metrics.days_elapsed > 0 =>
              LET budget_pressure ==
                      RMin(RDiv(calc.projected_total, RMax(ms.total_cost, One)), FromInt(2))
                  pct_time ==
                      RMin(Rat(metrics.days_elapsed, Max(ms.deadline_days, 1)), One)
              IN  calc.PoD =
                      RMin(Rat(95, 100),
                           RAdd(RAdd(RMul(budget_pressure, Rat(35, 100)),
                                     RMul(pct_time, Rat(20, 100))),
                                ExpectedUrgency(metrics.days_remaining)))

\* the cap is what decides PoD: the uncapped sum is 2*0.35 + 0.20 + 0.35
C6_Witness ==
    /\ Scored
    /\ metrics.days_elapsed = ms.deadline_days
    /\ metrics.days_remaining <= 7
    /\ RLe(FromInt(2), RDiv(calc.projected_total, RMax(ms.total_cost, One)))
    /\ calc.PoD = Rat(95, 100)

\* the classification as the specification words it
ExpectedLabel(s) ==
    IF s >= 70 THEN "CRITICAL"
    ELSE IF s >= 45 THEN "HIGH"
    ELSE IF s >= 25 THEN "MEDIUM"
    ELSE "LOW"

\* the one colour of each tier
TierColour(l) ==
    CASE l = "CRITICAL" -> "#FF4B4B"
      [] l = "HIGH"     -> "#FFA500"
      [] l = "MEDIUM"   -> "#00C0F0"
      [] l = "LOW"      -> "#00CC66"

\* C7: risk_label is CRITICAL for score >= 70, HIGH for >= 45, MEDIUM for
\* >= 25, else LOW, and risk_color gives each score the colour of that same
\* tier, so the label and the colour never disagree.
C7_RiskTiers ==
    rendered \in {"risk", "metrics"} =>
        /\ label = ExpectedLabel(riskArg)
        /\ color = TierColour(label)

C7_Witness ==
    rendered = "risk" /\ riskArg = 45 /\ label = "HIGH" /\ color = "#FFA500"

Scheduled == rendered = "schedule"

RAbs(r) == [n |-> Abs(r.n), d |-> r.d]

\* the cost of the resources of a list that are active on day index i
ExpectedActive(res, i) ==
    RSum([k \in 1..Len(res) |->
            IF i < res[k].days
            THEN RMul(FromInt(res[k].count), res[k].daily_rate) ELSE Zero])

\* the total material cost of a milestone
ExpectedMaterialCost(m) ==
    RSum([k \in 1..Len(m.materials) |->
            RMul(m.materials[k].quantity, m.materials[k].unit_cost)])

\* C8 as stated: the schedule has deadline_days rows; row i has day_index i,
\* date start_date + i, wages and machinery the cost of the labourers and
\* machines with i < days, and materials = total material cost / deadline_days.
C8_AsStated ==
    Scheduled =>
        /\ Len(schedule) = ms.deadline_days
        /\ \A k \in 1..Len(schedule) :
              /\ schedule[k].day_index = k - 1
              /\ schedule[k].date = ms.start_date + (k - 1)
              /\ schedule[k].wages = ExpectedActive(ms.labourers, k - 1)
              /\ schedule[k].machinery = ExpectedActive(ms.machines, k - 1)
              /\ schedule[k].materials =
                    RDiv(ExpectedMaterialCost(ms), FromInt(ms.deadline_days))

\* C8 amended: as stated, but each of wages, machinery and materials is the
\* stated value rounded to 2 decimal places.
C8_Rows ==
    Scheduled =>
        /\ Len(schedule) = ms.deadline_days
        /\ \A k \in 1..Len(schedule) :
              /\ schedule[k].day_index = k - 1
              /\ schedule[k].date = ms.start_date + (k - 1)
              /\ schedule[k].wages = Round(ExpectedActive(ms.labourers, k - 1), 2)
              /\ schedule[k].machinery = Round(ExpectedActive(ms.machines, k - 1), 2)
              /\ schedule[k].materials =
                    Round(RDiv(ExpectedMaterialCost(ms), FromInt(ms.deadline_days)), 2)

\* a labourer stops before the milestone ends, and the daily share of the
\* materials is not a whole number of cents
C8_Witness ==
    /\ Scheduled
    /\ Len(schedule) >= 3
    /\ Len(ms.labourers) = 2
    /\ RLt(schedule[3].wages, schedule[1].wages)
    /\ RLt(Zero, schedule[3].wages)
    /\ schedule[1].materials # RDiv(ExpectedMaterialCost(ms), FromInt(ms.deadline_days))

\* C9: in every row, the stored total is the sum of the stored wages,
\* materials and machinery.
C9_RowTotalIsSum ==
    Scheduled =>
        \A k \in 1..Len(schedule) :
            schedule[k].total =
                RAdd(RAdd(schedule[k].wages, schedule[k].materials), schedule[k].machinery)

MaterialsColumnSum == RSum([k \in 1..Len(schedule) |-> schedule[k].materials])

MaterialsDrift == RAbs(RSub(MaterialsColumnSum, ExpectedMaterialCost(ms)))

\* C10 as stated: the materials column sums to the total material cost, the
\* two differing by less than a cent.
C10_AsStated == Scheduled => RLt(MaterialsDrift, Dollars(1))

\* C10 amended: the materials column sums to the total material cost up to
\* the rounding of each row to 2 decimals: the two differ by at most half a
\* cent per row (0.005 * deadline_days), and not at all when the daily share is
\* a whole number of cents.
C10_MaterialsSum ==
    Scheduled =>
        /\ RLe(MaterialsDrift, Rat(5 * ms.deadline_days, 1000))
        /\ Round(daily_mat(ms), 2) = daily_mat(ms) => MaterialsDrift = Zero

\* 100.00 of materials over 30 days: 30 rows of 3.33
C10_Witness ==
    /\ Scheduled
    /\ ms.deadline_days = 30
    /\ ExpectedMaterialCost(ms) = Dollars(10000)
    /\ MaterialsColumnSum = Dollars(9990)

\* days_remaining as the specification words it
ClampedRemaining(m, t) ==
    Max(0, Min((m.start_date + m.deadline_days) - t, m.deadline_days))

\* C11: for every milestone and every value of today, days_remaining is
\* (start_date + deadline_days - today) clamped into [0, deadline_days], so it
\* never exceeds deadline_days, also before start_date.
C11_RemainingClamped ==
    Scored =>
        /\ metrics.days_remaining = ClampedRemaining(ms, today)
        /\ metrics.days_remaining <= ms.deadline_days

\* C12: days_of_cash_left is remaining_budget / avg_daily when avg_daily > 0,
\* with remaining_budget = max(total_cost - total_spent, 0); when avg_daily is 0
\* it is days_remaining exactly.  It is never negative.
C12_CashLeft ==
    Scored =>
        /\ calc.remaining_budget = RMax(RSub(ms.total_cost, calc.total_spent), Zero)
        /\ RLt(Zero, calc.avg_daily) =>
              calc.days_of_cash_left = RDiv(calc.remaining_budget, calc.avg_daily)
        /\ calc.avg_daily = Zero =>
              /\ calc.days_of_cash_left = FromInt(metrics.days_remaining)
              /\ metrics.days_of_cash_left = FromInt(metrics.days_remaining)
        /\ RLe(Zero, calc.avg_daily)
        /\ RLe(Zero, calc.days_of_cash_left)
        /\ metrics.days_of_cash_left = Round(calc.days_of_cash_left, 1)
        /\ RLe(Zero, metrics.days_of_cash_left)

\* a started milestone without any cost: no burn rate, the runway is the
\* days that remain
C12_Witness ==
    /\ Scored
    /\ metrics.days_elapsed > 0
    /\ metrics.days_remaining > 0
    /\ RLt(Zero, ms.total_cost)
    /\ calc.avg_daily = Zero
    /\ metrics.days_of_cash_left = FromInt(metrics.days_remaining)

\* C13: burn_efficiency is pct_spent / pct_time when pct_time > 0.05 and
\* exactly 1.0 otherwise (so for every milestone that has not started), with
\* pct_spent = total_spent / max(total_cost, 1).
C13_BurnEfficiency ==
    Scored =>
        /\ calc.pct_spent = RDiv(calc.total_spent, RMax(ms.total_cost, One))
        /\ calc.pct_time =
              IF metrics.days_elapsed > 0
              THEN RMin(Rat(metrics.days_elapsed, Max(ms.deadline_days, 1)), One)
              ELSE Zero
        /\ calc.burn_efficiency =
              IF RLt(Rat(5, 100), calc.pct_time)
              THEN RDiv(calc.pct_spent, calc.pct_time)
              ELSE One
        /\ metrics.burn_efficiency = Round(calc.burn_efficiency, 3)
        /\ metrics.not_started => metrics.burn_efficiency = One

\* the first day of 30: money has been spent, pct_time is 1/30 <= 0.05
C13_Witness ==
    /\ Scored
    /\ metrics.days_elapsed = 1
    /\ ms.deadline_days = 30
    /\ RLt(Zero, calc.pct_spent)
    /\ calc.pct_spent # calc.pct_time
    /\ metrics.burn_efficiency = One

\* C14: score_milestone completes without an error for deadline_days = 1 and
\* for total_cost = 0 (any resources, any today), and with total_cost = 0 the
\* returned pct_spent is total_spent / 1.
C14_Boundaries ==
    (rendered # "none" /\ (ms.deadline_days = 1 \/ ms.total_cost = Zero)) =>
        /\ rendered = "metrics"
        /\ calc.error = "none"
        /\ ms.total_cost = Zero =>
              /\ calc.pct_spent = calc.total_spent
              /\ metrics.pct_spent = Round(calc.total_spent, 4)

\* one day, no budget, and money spent on that day
C14_Witness ==
    /\ Scored
    /\ ms.deadline_days = 1
    /\ ms.total_cost = Zero
    /\ metrics.days_elapsed = 1
    /\ RLt(Zero, metrics.pct_spent)

\* C15: with deadline_days = 0, compute_planned_schedule,
\* get_actuals_up_to_today and score_milestone all complete without an error,
\* and score_milestone returns a metrics bundle.
C15_ZeroDuration ==
    (ms.deadline_days = 0 /\ rendered # "none") =>
        /\ rendered \in {"schedule", "metrics"}
        /\ get_actuals_error(ms) = "none"

\* C16: generate_suggestions(ms, score_milestone(ms)) completes without an
\* error and returns a list of advisories for every milestone with
\* total_cost = 0, also when its labourers cost something or its
\* projected_total is positive.
C16_ZeroBudgetAdvice ==
    (Scored /\ ms.total_cost = Zero) =>
        /\ sugg.error = "none"
        /\ sugg.list # <<>>

\* the tags of a list of advisories
TagsIn(list) == {list[k].tag : k \in 1..Len(list)}

\* generate_suggestions(ms, m) returned a list
Advised == Scored /\ sugg.error = "none"

\* C17: generate_suggestions never returns an empty list, and the ON TRACK
\* advisory (severity success) is in the result if and only if no other rule
\* fired; when present it is the only advisory.
C17_OnTrack ==
    Advised =>
        /\ sugg.list # <<>>
        /\ ("ON TRACK" \in TagsIn(sugg.list)) <=> (TagsIn(sugg.list) \ {"ON TRACK"} = {})
        /\ "ON TRACK" \in TagsIn(sugg.list) =>
              sugg.list = <<[tag |-> "ON TRACK", kind |-> "success"]>>
        /\ (TagsIn(sugg.list) = {"ON TRACK"}) <=>
              /\ pace_advisories(metrics.burn_efficiency) = <<>>
              /\ slow_burn_advisory(metrics.burn_efficiency, metrics.pct_time) = <<>>
              /\ deadline_advisory(metrics.days_remaining, metrics.PoD) = <<>>
              /\ ~labour_fires(ms)
              /\ machinery_advisory(ms.machines, metrics.burn_efficiency) = <<>>
              /\ cash_advisory(metrics.days_of_cash_left) = <<>>
              /\ ~overrun_fires(ms, metrics.projected_total)

\* a started milestone of the usual size on which nothing fires
C17_Witness ==
    /\ Advised
    /\ metrics.days_elapsed > 0
    /\ ms.labourers # <<>>
    /\ ms.machines # <<>>
    /\ sugg.list = <<[tag |-> "ON TRACK", kind |-> "success"]>>

\* the rules in the order of presentation
RuleOrder ==
    <<"OVERSPEND", "PACE RISK", "SLOW BURN", "DEADLINE CRITICAL", "LABOUR OPTIMISE",
      "MACHINERY SAVINGS", "CASH ALERT", "BUDGET OVERRUN">>

RuleTags == {RuleOrder[k] : k \in 1..Len(RuleOrder)}

Position(tag) == CHOOSE k \in 1..Len(RuleOrder) : RuleOrder[k] = tag

Severity(tag) ==
    CASE tag \in {"OVERSPEND", "DEADLINE CRITICAL", "CASH ALERT", "BUDGET OVERRUN"} -> "error"
      [] tag \in {"PACE RISK", "LABOUR OPTIMISE"} -> "warning"
      [] tag \in {"SLOW BURN", "MACHINERY SAVINGS"} -> "info"
      [] tag = "ON TRACK" -> "success"

\* the total cost of the labourers over their days
LabourCost(m) ==
    RSum([k \in 1..Len(m.labourers) |->
            RMul(RMul(FromInt(m.labourers[k].count), m.labourers[k].daily_rate),
                 FromInt(m.labourers[k].days))])

\* the condition of a rule as the specification words it, for milestone m and
\* its metrics bundle b (the condition of Slow burn is the matter of C19)
RuleHolds(tag, m, b) ==
    CASE tag = "OVERSPEND" -> RLt(Rat(140, 100), b.burn_efficiency)
      [] tag = "PACE RISK" ->
            RLt(Rat(120, 100), b.burn_efficiency) /\ RLe(b.burn_efficiency, Rat(140, 100))
      [] tag = "DEADLINE CRITICAL" -> b.days_remaining <= 7 /\ RLt(Rat(35, 100), b.PoD)
      [] tag = "LABOUR OPTIMISE" ->
            m.labourers # <<>> /\ RLt(RMul(Rat(60, 100), m.total_cost), LabourCost(m))
      [] tag = "MACHINERY SAVINGS" ->
            m.machines # <<>> /\ RLt(Rat(105, 100), b.burn_efficiency)
      [] tag = "CASH ALERT" -> RLt(b.days_of_cash_left, FromInt(10))
      [] tag = "BUDGET OVERRUN" -> RLt(RMul(Rat(110, 100), m.total_cost), b.projected_total)

RulePairs == {p \in SUBSET RuleTags : Cardinality(p) = 2}

\* the advisories are exactly the rules whose condition holds, in the fixed
\* order, each with its severity, and no pair of the set excluded appears
ExactlyTheRules(excluded) ==
    (Scored /\ RLt(Zero, ms.total_cost)) =>
        /\ sugg.error = "none"
        /\ \A k \in 1..Len(sugg.list) :
              /\ sugg.list[k].tag \in RuleTags \cup {"ON TRACK"}
              /\ sugg.list[k].kind = Severity(sugg.list[k].tag)
        /\ \A i, j \in 1..Len(sugg.list) :
              (i < j /\ sugg.list[j].tag # "ON TRACK") =>
                  Position(sugg.list[i].tag) < Position(sugg.list[j].tag)
        /\ \A tag \in RuleTags \ {"SLOW BURN"} :
              (tag \in TagsIn(sugg.list)) <=> RuleHolds(tag, ms, metrics)
        /\ \A p \in excluded : ~(p \subseteq TagsIn(sugg.list))

\* milestones and days on which several rules fire together
PairCases ==
    {<<Milestone(2, 2, Dollars(50), <<Resource(1, 50, 2)>>, <<>>, <<Resource(1, 100, 2)>>), 3>>,
     <<Milestone(2, 30, Dollars(50), <<Resource(1, 50, 2)>>, <<>>, <<>>), 25>>,
     <<Milestone(2, 1, Dollars(50), <<>>, <<Material(1, 25)>>, <<Resource(1, 100, 2)>>), 2>>,
     <<Milestone(2, 1, Dollars(50), <<Resource(1, 50, 2)>>, <<>>, <<>>), 2>>,
     <<Milestone(2, 2, Dollars(40), <<>>, <<Material(1, 50)>>, <<>>), 2>>}

\* what generate_suggestions returns for each of them
PairCaseTags ==
    {TagsIn(generate_suggestions(c[1], score_milestone(c[1], c[2])).list) :
        c \in {x \in PairCases : /\ x[1] \in MilestoneInputs
                                 /\ x[2] \in FirstDay..LastDay
                                 /\ RLt(Zero, x[1].total_cost)}}

\* some milestone gets both advisories of the pair
CanAppear(p) == \E tags \in PairCaseTags : p \subseteq tags

OverspendAndPace == {{"OVERSPEND", "PACE RISK"}}

\* the pairs whose conditions on burn_efficiency contradict each other
ExclusivePairs ==
    {{"OVERSPEND", "PACE RISK"}, {"OVERSPEND", "SLOW BURN"},
     {"PACE RISK", "SLOW BURN"}, {"SLOW BURN", "MACHINERY SAVINGS"}}

\* C18 as stated: for total_cost > 0 the advisories are exactly the rules whose
\* condition holds, in the fixed order; Overspend and Pace risk never both
\* appear, and every other pair can.
C18_AsStated ==
    /\ ExactlyTheRules(OverspendAndPace)
    /\ \A p \in RulePairs \ OverspendAndPace : CanAppear(p)

\* C18 amended: as stated, but Slow burn never appears together with
\* Overspend, Pace risk or Machinery savings either; every pair other than
\* these four can appear.
C18_Advisories ==
    /\ ExactlyTheRules(ExclusivePairs)
    /\ \A p \in RulePairs \ ExclusivePairs : CanAppear(p)

\* six advisories at once, in the order of the rules
C18_Witness ==
    /\ Scored
    /\ RLt(Zero, ms.total_cost)
    /\ [k \in 1..Len(sugg.list) |-> sugg.list[k].tag] =
          <<"OVERSPEND", "DEADLINE CRITICAL", "LABOUR OPTIMISE", "MACHINERY SAVINGS",
            "CASH ALERT", "BUDGET OVERRUN">>

\* C19: the Slow burn advisory (severity info) fires exactly when
\* burn_efficiency < 0.60 and pct_time > 0.20.
C19_SlowBurn ==
    Advised =>
        ([tag |-> "SLOW BURN", kind |-> "info"] \in {sugg.list[k] : k \in 1..Len(sugg.list)})
            <=> (/\ RLt(metrics.burn_efficiency, Rat(60, 100))
                 /\ RLt(Rat(20, 100), metrics.pct_time))

\* C21: after any sequence of add, edit and delete operations, several of
\* them possibly within one second of the clock, the stored milestones have
\* pairwise distinct ids, and an edit leaves the id of the milestone as it was.
C21_DistinctIds ==
    /\ \A j, k \in 1..Len(milestones) : j # k => milestones[j].id # milestones[k].id
    /\ saved.op = "edit" => saved.updated_id = saved.id

\* C22: a saved edit never sets deadline_days below the days already elapsed
\* at the time of the edit, and never below 1; a duration that already meets
\* this bound is accepted by the duration field of the form unchanged.
C22_EditKeepsElapsed ==
    /\ saved.op = "edit" =>
           /\ saved.deadline_days >= saved.days_elapsed
           /\ saved.deadline_days >= 1
    /\ \A k \in 1..Len(milestones) :
           LET stored == milestones[k]
               elapsed == days_elapsed(stored, today)
           IN  (stored.deadline_days >= elapsed /\ stored.deadline_days >= 1)
                   => stored.deadline_days >= min_dur(stored, today)

C24_InsideWindow ==
    (/\ Scored
     /\ ms.deadline_days >= 1
     /\ ms.start_date <= today
     /\ today <= ms.start_date + ms.deadline_days - 1) =>
        /\ metrics.days_elapsed = (today - ms.start_date) + 1
        /\ metrics.days_remaining = (ms.start_date + ms.deadline_days) - today
        /\ metrics.days_elapsed \in 1..ms.deadline_days
        /\ metrics.days_remaining \in 1..ms.deadline_days
        /\ metrics.days_elapsed + metrics.days_remaining = ms.deadline_days + 1

C24_Witness ==
    /\ Scored
    /\ ms.deadline_days = 30
    /\ today = ms.start_date + 11
    /\ metrics.days_elapsed = 12
    /\ metrics.days_remaining = 19

\* C25: within one score_milestone call (deadline_days >= 1) the actuals
\* window has exactly days_elapsed rows, the first days_elapsed rows of the
\* planned schedule, so total_spent is the sum of the planned totals of
\* exactly the elapsed days.
C25_ActualsAreElapsedDays ==
    (Scored /\ ms.deadline_days >= 1) =>
        LET rows == compute_planned_schedule(ms)
        IN  /\ calc.n_actuals = metrics.days_elapsed
            /\ calc.total_spent =
                   RSum([k \in 1..metrics.days_elapsed |-> rows[k].total])

C27_PastEnd ==
    (/\ Scored
     /\ ms.deadline_days >= 1
     /\ today >= ms.start_date + ms.deadline_days) =>
        /\ metrics.days_remaining = 0
        /\ metrics.days_elapsed = ms.deadline_days
        /\ metrics.score >= 47
        /\ label \in {"HIGH", "CRITICAL"}

C27_Witness ==
    /\ Scored
    /\ ms.deadline_days = 30
    /\ today >= ms.start_date + ms.deadline_days
    /\ metrics.score = 47
    /\ label = "HIGH"

WagesColumnSum == RSum([k \in 1..Len(schedule) |-> schedule[k].wages])

MachineryColumnSum == RSum([k \in 1..Len(schedule) |-> schedule[k].machinery])

TotalColumnSum == RSum([k \in 1..Len(schedule) |-> schedule[k].total])

\* sum of count * daily_rate * min(days, deadline_days) over a list of resources
TruncatedCost(res, dd) ==
    RSum([k \in 1..Len(res) |->
            RMul(FromInt(res[k].count * Min(res[k].days, dd)), res[k].daily_rate)])

\* every resource of the milestone has days <= deadline_days
AllWithin(m) ==
    /\ \A k \in 1..Len(m.labourers) : m.labourers[k].days <= m.deadline_days
    /\ \A k \in 1..Len(m.machines) : m.machines[k].days <= m.deadline_days

\* every daily rate of the list is a whole number of cents
WholeCentRates(res) ==
    \A k \in 1..Len(res) : Round(res[k].daily_rate, 2) = res[k].daily_rate

\* C28 as stated: the wages column sums to the sum over labourers of
\* count * daily_rate * min(days, deadline_days), likewise machinery, and the
\* schedule total equals planned_total when every resource has
\* days <= deadline_days.
C28_AsStated ==
    Scheduled =>
        /\ WagesColumnSum = TruncatedCost(ms.labourers, ms.deadline_days)
        /\ MachineryColumnSum = TruncatedCost(ms.machines, ms.deadline_days)
        /\ AllWithin(ms) => TotalColumnSum = planned_total(ms)

\* C28 amended: up to the rounding of each row to 2 decimals (at most half a
\* cent per row, nothing for rates in whole cents) the wages column sums to
\* the sum over labourers of count * daily_rate * min(days, deadline_days),
\* likewise machinery, which is never more than the planned cost of the list;
\* when every resource has days <= deadline_days the schedule total differs
\* from planned_total by at most half a cent per row, and not at all when the
\* rates and the daily material share are whole cents.
C28_Truncation ==
    Scheduled =>
        LET dd       == ms.deadline_days
            wages    == TruncatedCost(ms.labourers, dd)
            mach     == TruncatedCost(ms.machines, dd)
            rounding == Rat(5 * dd, 1000)
        IN  /\ RLe(RAbs(RSub(WagesColumnSum, wages)), rounding)
            /\ RLe(RAbs(RSub(MachineryColumnSum, mach)), rounding)
            /\ WholeCentRates(ms.labourers) => WagesColumnSum = wages
            /\ WholeCentRates(ms.machines) => MachineryColumnSum = mach
            /\ RLe(wages, planned_cost(ms.labourers))
            /\ RLe(mach, planned_cost(ms.machines))
            /\ AllWithin(ms) =>
                  /\ RLe(RAbs(RSub(TotalColumnSum, planned_total(ms))), rounding)
                  /\ (/\ WholeCentRates(ms.labourers)
                      /\ WholeCentRates(ms.machines)
                      /\ Round(daily_mat(ms), 2) = daily_mat(ms))
                         => TotalColumnSum = planned_total(ms)

\* five labourers at 120.00 for 30 days in a milestone of 4 days
C28_Witness ==
    /\ Scheduled
    /\ ms.deadline_days = 4
    /\ ms.labourers = <<Resource(5, 12000, 30)>>
    /\ WagesColumnSum = Dollars(240000)
    /\ planned_cost(ms.labourers) = Dollars(1800000)
    /\ RLt(TotalColumnSum, planned_total(ms))

====
